---- MODULE Spec2Model ----
(***************************************************************************)
(* pyflwdir/core.py: upstream / downstream functionality on sparse indices.*)
(*                                                                         *)
(* 1D arrays are functions on 0..n-1 (the numpy index), Python lists and   *)
(* the arrays returned as results of list-like construction are sequences. *)
(* The upstream table idxs_us (n x d) is a function from the row index to  *)
(* the row, a sequence of length d.                                        *)
(*                                                                         *)
(* Modelled: _idxs_us, n_upstream, network_tree, upstream, pit_indices,    *)
(* loop_indices, downstream, downstream_path, _main_upstream,              *)
(* main_upstream, _sparse_idx, _densify and downstream_length with         *)
(* latlon = False.  Each call sequence starts from its arguments (Init)    *)
(* and the while-loops advance one pass per step.                          *)
(***************************************************************************)
EXTENDS Integers, Sequences, FiniteSets, TLC

\* ---------------------------------------------------------------- bounds
\* cells of a downstream array in the network calls
MaxN == 4
\* cells of a downstream array in the main_upstream calls
MaxNW == 3
\* upstream-area values are 0 .. MaxW
MaxW == 2
\* rows and columns of a raster are 1 .. MaxDim
MaxDim == 2
\* valid cells of a raster in the index and length calls
MaxValid == 2
\* sparse data values are 0 .. MaxVal
MaxVal == 2
\* cell sizes of the affine transform are 1 .. MaxRes in absolute value
MaxRes == 2

\* ------------------------------------------------------------- constants
\* _mv = np.uint32(-1), the missing value 2^32 - 1.  The model checker's
\* integers are 32 bit signed, so the value is represented by the -1 it is
\* constructed from: the code only tests it for equality and uses it as an
\* index, where both values are outside every array.
_mv == -1
\* n_up has dtype np.uint8: a counter of 8 bits, arithmetic modulo 2^8
Uint8 == 256
\* default of the nodata parameter of _densify
NoData == -9999

VARIABLES
    call,          \* the entry point exercised
    pc,            \* position in the call sequence
    idxs_ds,       \* downstream index of every cell (input)
    idxs_us,       \* upstream table, result of _idxs_us
    tree,          \* network_tree: the typed list of levels
    idxs,          \* network_tree: cells of the last level;
                   \* main_upstream: the cells asked for (input)
    no_loop,       \* loop_indices: reachability flags
    idxs_ds0,      \* loop_indices: current frontier
    loops,         \* loop_indices: result
    iter,          \* passes through the current while-loop
    idx0,          \* downstream_path: start cell, then current cell;
                   \* downstream_length: the cell asked for (input)
    path,          \* downstream_path: the list idxs
    uparea_sparse, \* main_upstream: upstream area of every cell (input)
    upa_min,       \* main_upstream: minimum upstream area (input)
    idxs_us_main,  \* main_upstream: result
    shape,         \* raster shape (input)
    idxs_dense,    \* dense linear index of every valid cell (input)
    data,          \* _densify: sparse values (input)
    nodata,        \* _densify: fill value (input)
    data_out,      \* _densify: result
    idxs_sparse,   \* _sparse_idx: result
    affine,        \* downstream_length: the six coefficients (input)
    ds_length      \* downstream_length: result <<idx1, length squared>>

netVars == <<tree, idxs, no_loop, idxs_ds0, loops, iter, idx0, path>>

upaVars == <<uparea_sparse, upa_min, idxs_us_main>>

idxVars == <<shape, idxs_dense, data, nodata, data_out, idxs_sparse>>

lenVars == <<affine, ds_length>>

vars == <<call, pc, idxs_ds, idxs_us, netVars, upaVars, idxVars, lenVars>>

\* ---------------------------------------------------------------- arrays
Size(a) == Cardinality(DOMAIN a)

Range(s) == {s[k] : k \in DOMAIN s}

\* for i in range(lo, hi): st = body(i, st).  The range is split in halves
\* and the first half is evaluated before the second is entered, which
\* keeps the nesting of the evaluation logarithmic in hi - lo.
RECURSIVE for_range(_, _, _, _)
for_range(body(_, _), lo, hi, st) ==
    IF hi <= lo THEN st
    ELSE IF hi = lo + 1 THEN body(lo, st)
    ELSE LET mid == (lo + hi) \div 2
             s   == for_range(body, lo, mid, st)
         IN IF s = s THEN for_range(body, mid, hi, s) ELSE s

\* np.where(mask)[0]: ascending indices where mask holds
where(mask) ==
    for_range(LAMBDA i, out : IF mask[i] THEN Append(out, i) ELSE out,
              0, Size(mask), <<>>)

\* np.max of a non-empty array
np_max(a) ==
    for_range(LAMBDA i, m : IF a[i] > m THEN a[i] ELSE m, 1, Size(a), a[0])

\* ------------------------------------------------------------ n_upstream
\* Loop body of n_upstream for cell i.  A target outside 0..n-1 (the missing
\* value) indexes n_up out of bounds; see IndexOutOfBounds.
n_upstream_step(idxs_ds_, i, n_up) ==
    LET i_ds == idxs_ds_[i] IN
    IF i # i_ds /\ i_ds \in DOMAIN n_up
    THEN [n_up EXCEPT ![i_ds] = (@ + 1) % Uint8]
    ELSE n_up

n_upstream(idxs_ds_) ==
    for_range(LAMBDA i, n_up : n_upstream_step(idxs_ds_, i, n_up),
              0, Size(idxs_ds_), [c \in DOMAIN idxs_ds_ |-> 0])

\* -------------------------------------------------------------- _idxs_us
\* The table is one C-contiguous buffer of n * d slots; idxs_us[i_ds][ii] is
\* the slot i_ds * d + ii.  Compiled code does not check ii < d: the write
\* lands in the slot computed, inside the buffer (a slot of a later row) or
\* past its end (no slot of the table changes).
\* st = [mem, n_up, oob]: buffer, counters, whether an index left its axis.
\* (mutant of place_step: the test for a pit is missing, a pit is placed in
\* its own row)
place_step_with_pits(idxs_ds_, d, i, st) ==
    LET i_ds == idxs_ds_[i] IN
    IF i_ds \notin DOMAIN idxs_ds_ THEN [st EXCEPT !.oob = TRUE]
    ELSE LET ii  == st.n_up[i_ds]
             off == i_ds * d + ii
         IN [mem  |-> IF off \in DOMAIN st.mem
                      THEN [st.mem EXCEPT ![off] = i] ELSE st.mem,
             n_up |-> [st.n_up EXCEPT ![i_ds] = (@ + 1) % Uint8],
             oob  |-> st.oob \/ ii >= d]

place_step(idxs_ds_, d, i, st) ==
    LET i_ds == idxs_ds_[i] IN
    IF i_ds = i THEN st
    ELSE IF i_ds \notin DOMAIN idxs_ds_ THEN [st EXCEPT !.oob = TRUE]
    ELSE LET ii  == st.n_up[i_ds]
             off == i_ds * d + ii
         IN [mem  |-> IF off \in DOMAIN st.mem
                      THEN [st.mem EXCEPT ![off] = i] ELSE st.mem,
             n_up |-> [st.n_up EXCEPT ![i_ds] = (@ + 1) % Uint8],
             oob  |-> st.oob \/ ii >= d]

placement(idxs_ds_) ==
    LET n_up == n_upstream(idxs_ds_)
        d    == np_max(n_up)
        n    == Size(idxs_ds_)
    IN [d  |-> d,
        st |-> for_range(LAMBDA i, st : place_step(idxs_ds_, d, i, st), 0, n,
                   [mem  |-> [k \in 0 .. (n * d - 1) |-> _mv],
                    n_up |-> [c \in DOMAIN idxs_ds_ |-> 0],
                    oob  |-> FALSE])]

\* the (n, d) view of the buffer
_idxs_us(idxs_ds_) ==
    LET p == placement(idxs_ds_) IN
    [r \in DOMAIN idxs_ds_ |-> [k \in 1 .. p.d |-> p.st.mem[r * p.d + k - 1]]]

\* Some index of n_upstream or _idxs_us is outside its axis.  Where bounds
\* are checked (interpreted, NUMBA_BOUNDSCHECK) the call ends in an
\* IndexError; compiled without checks it writes as place_step describes,
\* unless the stray write ends the process, which the model does not tell
\* apart from the IndexError.
IndexOutOfBounds(idxs_ds_) == placement(idxs_ds_).st.oob

\* -------------------------------------------------------------- upstream
\* idxs_us[idx0, :].ravel(): the rows of the cells of idx0, one after another
ravel_rows(idx0_, idxs_us_) ==
    for_range(LAMBDA k, out : out \o idxs_us_[idx0_[k]], 1, Len(idx0_) + 1, <<>>)

upstream(idx0_, idxs_us_) ==
    SelectSeq(ravel_rows(idx0_, idxs_us_), LAMBDA x : x # _mv)

\* ----------------------------------------------------------- pit_indices
pit_indices(idxs_ds_) ==
    for_range(LAMBDA i, idx_lst :
                  IF i = idxs_ds_[i] THEN Append(idx_lst, i) ELSE idx_lst,
              0, Size(idxs_ds_), <<>>)

\* ---------------------------------------------------------- loop_indices
\* (mutant of no_loop_init: the flags start from False, cells without
\* downstream target are not flagged)
no_loop_init_pits_only(idxs_ds_, pits) ==
    [c \in DOMAIN idxs_ds_ |-> c \in Range(pits)]

\* no_loop = idxs_ds == _mv; no_loop[pits] = True
no_loop_init(idxs_ds_, pits) ==
    [c \in DOMAIN idxs_ds_ |-> (idxs_ds_[c] = _mv) \/ (c \in Range(pits))]

\* (mutant of toggle: the flags of the cells reached are left as they are)
toggle_never(no_loop_, idxs_us0) == no_loop_

\* no_loop[idxs_us0] = ~no_loop[idxs_us0]
toggle(no_loop_, idxs_us0) ==
    [c \in DOMAIN no_loop_ |->
        IF c \in Range(idxs_us0) THEN ~no_loop_[c] ELSE no_loop_[c]]


\* --------------------------------------------------------- main_upstream
\* (mutant of _main_upstream: strictly greater, the first of equal areas
\* wins and an area equal to upa_min does not count)
_main_upstream_strict(idx0_, idxs_us_, uparea_sparse_, upa_min_) ==
    for_range(LAMBDA k, st :
                  LET idx_us == idxs_us_[idx0_][k] IN
                  IF st.stop THEN st
                  ELSE IF idx_us = _mv THEN [st EXCEPT !.stop = TRUE]
                  ELSE IF uparea_sparse_[idx_us] > st.upa0
                  THEN [idx_us0 |-> idx_us, upa0 |-> uparea_sparse_[idx_us],
                        stop |-> FALSE]
                  ELSE st,
              1, Len(idxs_us_[idx0_]) + 1,
              [idx_us0 |-> _mv, upa0 |-> upa_min_, stop |-> FALSE]).idx_us0

\* The loop over the row idxs_us[idx0, :]; st = [idx_us0, upa0, stop], stop
\* once the break at the missing value is taken.
_main_upstream(idx0_, idxs_us_, uparea_sparse_, upa_min_) ==
    for_range(LAMBDA k, st :
                  LET idx_us == idxs_us_[idx0_][k] IN
                  IF st.stop THEN st
                  ELSE IF idx_us = _mv THEN [st EXCEPT !.stop = TRUE]
                  ELSE IF uparea_sparse_[idx_us] >= st.upa0
                  THEN [idx_us0 |-> idx_us, upa0 |-> uparea_sparse_[idx_us],
                        stop |-> FALSE]
                  ELSE st,
              1, Len(idxs_us_[idx0_]) + 1,
              [idx_us0 |-> _mv, upa0 |-> upa_min_, stop |-> FALSE]).idx_us0

\* idxs_us.shape[0] != uparea_sparse.size: ValueError
main_upstream_raises(idxs_us_, uparea_sparse_) ==
    Size(idxs_us_) # Size(uparea_sparse_)

main_upstream(idxs_, idxs_us_, uparea_sparse_, upa_min_) ==
    [i \in DOMAIN idxs_ |->
        _main_upstream(idxs_[i], idxs_us_, uparea_sparse_, upa_min_)]

\* ------------------------------------------------- _sparse_idx, _densify
\* a 2D array is a function from the row index to the row
reshape(a, shape_) ==
    [r \in 0 .. (shape_[0] - 1) |->
        [c \in 0 .. (shape_[1] - 1) |-> a[r * shape_[1] + c]]]

ravel(a, shape_) ==
    [k \in 0 .. (shape_[0] * shape_[1] - 1) |->
        a[k \div shape_[1]][k % shape_[1]]]

\* np.full(size, value)
full(size, value) == [k \in 0 .. (size - 1) |-> value]

\* target[index] = values, element after element
scatter(target, index, values) ==
    for_range(LAMBDA k, out : [out EXCEPT ![index[k]] = values[k]],
              0, Size(index), target)

\* np.any(idxs < 0) or np.any(idxs >= size): ValueError
_sparse_idx_raises(idxs_, size) ==
    \E k \in DOMAIN idxs_ : idxs_[k] < 0 \/ idxs_[k] >= size

\* idxs_sparse[idxs] is taken element by element
_sparse_idx(idxs_, idxs_dense_, size) ==
    LET idxs_sparse_ == scatter(full(size, _mv), idxs_dense_,
                                [i \in DOMAIN idxs_dense_ |-> i])
    IN [k \in DOMAIN idxs_ |-> idxs_sparse_[idxs_[k]]]

\* idxs_dense.size != data.size: ValueError
_densify_raises(data_, idxs_dense_) == Size(idxs_dense_) # Size(data_)

\* (mutant of _densify: the values are written to the first cells of the
\* raster instead of the cells idxs_dense)
_densify_packed(data_, idxs_dense_, shape_, nodata_) ==
    reshape(scatter(full(shape_[0] * shape_[1], nodata_),
                    [i \in DOMAIN data_ |-> i], data_), shape_)

_densify(data_, idxs_dense_, shape_, nodata_) ==
    reshape(scatter(full(shape_[0] * shape_[1], nodata_), idxs_dense_, data_),
            shape_)

\* ----------------------------------------- downstream, downstream_length
downstream(idx0_, idxs_ds_) == idxs_ds_[idx0_]

\* math.hypot(x, y) is the non-negative root of x^2 + y^2; the model keeps
\* the square, which determines it.
hypot_sq(x, y) == x * x + y * y

\* latlon = False.  (With latlon = True the cell sizes come from
\* gis_utils.degree_metres_y / _x, which the source does not hold.)
downstream_length(idx0_, idxs_ds_, idxs_dense_, ncol, affine_) ==
    LET xres   == affine_[0]
        yres   == affine_[4]
        idx1   == downstream(idx0_, idxs_ds_)
        idx    == idxs_dense_[idx0_]
        idx_ds == idxs_dense_[idx1]
        r      == idx_ds \div ncol
        dr     == (idx \div ncol) - r
        dc     == (idx % ncol) - (idx_ds % ncol)
        dy     == xres
        dx     == yres
    IN <<idx1, hypot_sq(dy * dr, dx * dc)>>

\* ---------------------------------------------------------------- inputs
\* downstream arrays of n cells; an entry is a cell or the missing value
DsArrays(n) == [0 .. (n - 1) -> (0 .. (n - 1)) \cup {_mv}]

\* downstream arrays of n cells in which every entry is a cell
ValidDsArrays(n) == [0 .. (n - 1) -> 0 .. (n - 1)]

\* every cell drains to cell 0: the fan-in of cell 0 is n - 1
Fan(n) == [i \in 0 .. (n - 1) |-> 0]

\* fan-ins that reach the width of the n_up counters
WideSizes == {Uint8 + 1, Uint8 + 2}

NetworkInputs ==
    UNION {DsArrays(n) : n \in 1 .. MaxN} \cup {Fan(n) : n \in WideSizes}

\* raster shapes (rows, columns)
Shapes == [0 .. 1 -> 1 .. MaxDim]

Min(a, b) == IF a < b THEN a ELSE b

\* n distinct dense indices of a raster of the given size, in any order
DenseIdxs(n, size) ==
    {f \in [0 .. (n - 1) -> 0 .. (size - 1)] :
        \A i, j \in 0 .. (n - 1) : i # j => f[i] # f[j]}

\* n dense indices in raster order, as the valid cells of a raster are
AscendingDenseIdxs(n, size) ==
    {f \in [0 .. (n - 1) -> 0 .. (size - 1)] :
        \A i, j \in 0 .. (n - 1) : i < j => f[i] < f[j]}

\* the six coefficients; the rotation and origin terms are not read when
\* latlon = False
Affines ==
    {[k \in 0 .. 5 |-> IF k = 0 THEN xres ELSE IF k = 4 THEN yres ELSE 0] :
        xres \in 1 .. MaxRes,
        yres \in (1 .. MaxRes) \cup {0 - y : y \in 1 .. MaxRes}}

NoNetwork ==
    /\ tree = <<>> /\ idxs = <<>> /\ no_loop = <<>> /\ idxs_ds0 = <<>>
    /\ loops = <<>> /\ iter = 0 /\ idx0 = _mv /\ path = <<>>

NoMainUpstream ==
    /\ uparea_sparse = <<>> /\ upa_min = 0 /\ idxs_us_main = <<>>

NoIndex ==
    /\ shape = <<>> /\ idxs_dense = <<>> /\ data = <<>> /\ nodata = NoData
    /\ data_out = <<>> /\ idxs_sparse = <<>>

NoLength ==
    /\ affine = <<>> /\ ds_length = <<>>

\* _idxs_us, network_tree, loop_indices and downstream_path on one array
InitNetwork ==
    /\ call = "network"
    /\ pc = "start"
    /\ idxs_ds \in NetworkInputs
    /\ idxs_us = <<>>
    /\ NoNetwork /\ NoMainUpstream /\ NoIndex /\ NoLength

\* main_upstream for all cells of an array, on the table of _idxs_us; the
\* area array has one value per cell, or one value too many
InitMainUpstream ==
    /\ call = "main_upstream"
    /\ pc = "start"
    /\ \E n \in 1 .. MaxNW :
          /\ idxs_ds \in ValidDsArrays(n)
          /\ idxs = [i \in 0 .. (n - 1) |-> i]
          /\ uparea_sparse \in
                 [0 .. (n - 1) -> 0 .. MaxW] \cup {[k \in 0 .. n |-> 0]}
    /\ upa_min \in 0 .. MaxW
    /\ idxs_us = <<>> /\ idxs_us_main = <<>>
    /\ tree = <<>> /\ no_loop = <<>> /\ idxs_ds0 = <<>>
    /\ loops = <<>> /\ iter = 0 /\ idx0 = _mv /\ path = <<>>
    /\ NoIndex /\ NoLength

\* _densify, then _sparse_idx; the data array has one value per valid
\* cell, or one value too many
InitIndex ==
    /\ call = "index"
    /\ pc = "start"
    /\ shape \in Shapes
    /\ \E n \in 0 .. Min(MaxValid, shape[0] * shape[1]) :
          /\ idxs_dense \in DenseIdxs(n, shape[0] * shape[1])
          /\ data \in [0 .. (n - 1) -> 0 .. MaxVal] \cup {[k \in 0 .. n |-> 0]}
    /\ nodata \in {NoData, 0}
    /\ data_out = <<>> /\ idxs_sparse = <<>>
    /\ idxs_ds = <<>> /\ idxs_us = <<>>
    /\ NoNetwork /\ NoMainUpstream /\ NoLength

\* downstream_length of one cell
InitLength ==
    /\ call = "length"
    /\ pc = "start"
    /\ shape \in Shapes
    /\ \E n \in 1 .. Min(MaxValid, shape[0] * shape[1]) :
          /\ idxs_dense \in AscendingDenseIdxs(n, shape[0] * shape[1])
          /\ idxs_ds \in ValidDsArrays(n)
          /\ idx0 \in 0 .. (n - 1)
    /\ affine \in Affines
    /\ ds_length = <<>>
    /\ idxs_us = <<>>
    /\ tree = <<>> /\ idxs = <<>> /\ no_loop = <<>> /\ idxs_ds0 = <<>>
    /\ loops = <<>> /\ iter = 0 /\ path = <<>>
    /\ data = <<>> /\ nodata = NoData /\ data_out = <<>> /\ idxs_sparse = <<>>
    /\ NoMainUpstream

Init == InitNetwork \/ InitMainUpstream \/ InitIndex \/ InitLength

\* --------------------------------------------------------------- actions
\* idxs_us = _idxs_us(idxs_ds)
BuildUs ==
    /\ call \in {"network", "main_upstream"}
    /\ pc = "start"
    /\ \E boundscheck \in BOOLEAN :
          IF boundscheck /\ IndexOutOfBounds(idxs_ds)
          THEN /\ pc' = "IndexError"
               /\ idxs_us' = idxs_us
          ELSE /\ pc' = "built"
               /\ idxs_us' = _idxs_us(idxs_ds)
    /\ UNCHANGED <<call, idxs_ds, netVars, upaVars, idxVars, lenVars>>

\* (mutant of TreeStart: without a pit no level is appended)
TreeStart_skip_empty ==
    /\ call = "network"
    /\ pc = "built"
    /\ LET idxs_pits == pit_indices(idxs_ds) IN
          /\ tree' = IF idxs_pits = <<>> THEN <<>> ELSE <<idxs_pits>>
          /\ idxs' = idxs_pits
    /\ iter' = 0
    /\ pc' = "tree"
    /\ UNCHANGED <<call, idxs_ds, idxs_us, no_loop, idxs_ds0, loops, idx0,
                   path, upaVars, idxVars, lenVars>>

\* network_tree(pit_indices(idxs_ds), idxs_us), up to the while-loop
TreeStart ==
    /\ call = "network"
    /\ pc = "built"
    /\ LET idxs_pits == pit_indices(idxs_ds) IN
          /\ tree' = <<idxs_pits>>
          /\ idxs' = idxs_pits
    /\ iter' = 0
    /\ pc' = "tree"
    /\ UNCHANGED <<call, idxs_ds, idxs_us, no_loop, idxs_ds0, loops, idx0,
                   path, upaVars, idxVars, lenVars>>

\* One pass of the while-loop of network_tree.  More passes than cells
\* mean that a cell has come back: the model follows the loop no further.
TreeStep ==
    /\ pc = "tree"
    /\ iter <= Size(idxs_ds)
    /\ iter' = iter + 1
    /\ LET idxs_us0 == upstream(idxs, idxs_us) IN
          IF Len(idxs_us0) = 0
          THEN /\ pc' = "tree_done"
               /\ UNCHANGED <<tree, idxs>>
          ELSE /\ tree' = Append(tree, idxs_us0)
               /\ idxs' = idxs_us0
               /\ pc' = pc
    /\ UNCHANGED <<call, idxs_ds, idxs_us, no_loop, idxs_ds0, loops, idx0,
                   path, upaVars, idxVars, lenVars>>

\* loop_indices(idxs_ds, idxs_us), up to the while-loop
LoopStart ==
    /\ pc = "tree_done"
    /\ LET pits == pit_indices(idxs_ds) IN
          /\ no_loop' = no_loop_init(idxs_ds, pits)
          /\ idxs_ds0' = pits
    /\ iter' = 0
    /\ pc' = "loop"
    /\ UNCHANGED <<call, idxs_ds, idxs_us, tree, idxs, loops, idx0, path,
                   upaVars, idxVars, lenVars>>

\* One pass of the while-loop of loop_indices, and the return after it.
\* The passes are limited as in TreeStep.
LoopStep ==
    /\ pc = "loop"
    /\ iter <= Size(idxs_ds)
    /\ iter' = iter + 1
    /\ LET idxs_us0 == upstream(idxs_ds0, idxs_us) IN
          IF Len(idxs_us0) = 0
          THEN /\ loops' = where([c \in DOMAIN no_loop |-> ~no_loop[c]])
               /\ pc' = "loop_done"
               /\ UNCHANGED <<no_loop, idxs_ds0>>
          ELSE /\ no_loop' = toggle(no_loop, idxs_us0)
               /\ idxs_ds0' = idxs_us0
               /\ pc' = pc
               /\ loops' = loops
    /\ UNCHANGED <<call, idxs_ds, idxs_us, tree, idxs, idx0, path,
                   upaVars, idxVars, lenVars>>

\* downstream_path(c, idxs_ds), up to the while-loop
PathStart ==
    /\ pc = "loop_done"
    /\ \E c \in DOMAIN idxs_ds :
          /\ idx0' = c
          /\ path' = <<c>>
    /\ pc' = "path"
    /\ UNCHANGED <<call, idxs_ds, idxs_us, tree, idxs, no_loop, idxs_ds0,
                   loops, iter, upaVars, idxVars, lenVars>>

\* One pass of the while-loop of downstream_path.  A list longer than the
\* number of cells repeats a cell, and the walk is then periodic: the model
\* follows it no further.
PathStep ==
    /\ pc = "path"
    /\ Len(path) <= Size(idxs_ds)
    /\ idx0 \in DOMAIN idxs_ds
    /\ LET idx_ds == idxs_ds[idx0] IN
          IF idx0 = idx_ds
          THEN /\ pc' = "path_done"
               /\ UNCHANGED <<idx0, path>>
          ELSE /\ idx0' = idx_ds
               /\ path' = Append(path, idx_ds)
               /\ pc' = pc
    /\ UNCHANGED <<call, idxs_ds, idxs_us, tree, idxs, no_loop, idxs_ds0,
                   loops, iter, upaVars, idxVars, lenVars>>

\* idxs_ds[idx0] with idx0 the missing value reads past the array: an
\* IndexError where bounds are checked, else whatever the memory holds, and
\* the walk from there is not determined by idxs_ds.
PathReadOutOfBounds ==
    /\ pc = "path"
    /\ idx0 \notin DOMAIN idxs_ds
    /\ pc' \in {"IndexError", "garbage"}
    /\ UNCHANGED <<call, idxs_ds, idxs_us, netVars, upaVars, idxVars, lenVars>>

\* idxs_us_main = main_upstream(idxs, idxs_us, uparea_sparse, upa_min)
MainUpstream ==
    /\ call = "main_upstream"
    /\ pc = "built"
    /\ IF main_upstream_raises(idxs_us, uparea_sparse)
       THEN /\ pc' = "ValueError"
            /\ idxs_us_main' = idxs_us_main
       ELSE /\ pc' = "main_done"
            /\ idxs_us_main' =
                   main_upstream(idxs, idxs_us, uparea_sparse, upa_min)
    /\ UNCHANGED <<call, idxs_ds, idxs_us, netVars, uparea_sparse, upa_min,
                   idxVars, lenVars>>

\* data_out = _densify(data, idxs_dense, shape, nodata)
Densify ==
    /\ call = "index"
    /\ pc = "start"
    /\ IF _densify_raises(data, idxs_dense)
       THEN /\ pc' = "ValueError"
            /\ data_out' = data_out
       ELSE /\ pc' = "dense"
            /\ data_out' = _densify(data, idxs_dense, shape, nodata)
    /\ UNCHANGED <<call, idxs_ds, idxs_us, netVars, upaVars, shape, idxs_dense,
                   data, nodata, idxs_sparse, lenVars>>

\* idxs_sparse = _sparse_idx(data_out, idxs_dense, shape[0] * shape[1]): the
\* dense raster is handed over where dense indices are expected
SparseIdxOfDense ==
    /\ pc = "dense"
    /\ LET size == shape[0] * shape[1]
           flat == ravel(data_out, shape)
       IN IF _sparse_idx_raises(flat, size)
          THEN /\ pc' = "ValueError_of_dense"
               /\ idxs_sparse' = idxs_sparse
          ELSE /\ pc' = "sparse_of_dense"
               /\ idxs_sparse' =
                      reshape(_sparse_idx(flat, idxs_dense, size), shape)
    /\ UNCHANGED <<call, idxs_ds, idxs_us, netVars, upaVars, shape, idxs_dense,
                   data, nodata, data_out, lenVars>>

\* idxs_sparse = _sparse_idx(idxs_dense, idxs_dense, shape[0] * shape[1])
SparseIdxOfValid ==
    /\ pc = "dense"
    /\ LET size == shape[0] * shape[1] IN
          IF _sparse_idx_raises(idxs_dense, size)
          THEN /\ pc' = "ValueError_of_valid"
               /\ idxs_sparse' = idxs_sparse
          ELSE /\ pc' = "sparse_of_valid"
               /\ idxs_sparse' = _sparse_idx(idxs_dense, idxs_dense, size)
    /\ UNCHANGED <<call, idxs_ds, idxs_us, netVars, upaVars, shape, idxs_dense,
                   data, nodata, data_out, lenVars>>

\* ds_length = downstream_length(idx0, idxs_ds, idxs_dense, ncol, affine=affine)
DownstreamLength ==
    /\ call = "length"
    /\ pc = "start"
    /\ ds_length' = downstream_length(idx0, idxs_ds, idxs_dense, shape[1], affine)
    /\ pc' = "length_done"
    /\ UNCHANGED <<call, idxs_ds, idxs_us, netVars, upaVars, idxVars, affine>>

Next ==
    \/ BuildUs
    \/ TreeStart
    \/ TreeStep
    \/ LoopStart
    \/ LoopStep
    \/ PathStart
    \/ PathStep
    \/ PathReadOutOfBounds
    \/ MainUpstream
    \/ Densify
    \/ SparseIdxOfDense
    \/ SparseIdxOfValid
    \/ DownstreamLength

Spec == Init /\ [][Next]_vars

\* ---------------------------------------------------------------- claims
\* every entry of the downstream array is a cell
Valid(idxs_ds_) == \A c \in DOMAIN idxs_ds_ : idxs_ds_[c] \in DOMAIN idxs_ds_

Pits(idxs_ds_) == {c \in DOMAIN idxs_ds_ : idxs_ds_[c] = c}

\* the table has been built
Built == pc \notin {"start", "IndexError"}

\* network_tree has returned
TreeDone == Built /\ pc \notin {"built", "tree"}

\* loop_indices has returned
LoopsDone == TreeDone /\ pc \notin {"tree_done", "loop"}

\* positions <<level, index>> of the tree that hold cell c
TreePositions(c) ==
    {q \in UNION {{<<k, j>> : j \in DOMAIN tree[k]} : k \in DOMAIN tree} :
        tree[q[1]][q[2]] = c}

TreeCells == UNION {Range(tree[k]) : k \in DOMAIN tree}

\* the cell k hops downstream of c
RECURSIVE Hop(_, _, _)
Hop(idxs_ds_, c, k) == IF k = 0 THEN c ELSE Hop(idxs_ds_, idxs_ds_[c], k - 1)

\* cells whose downstream chain reaches a pit in exactly k hops
AtDistance(idxs_ds_, k) ==
    {c \in DOMAIN idxs_ds_ :
        /\ Hop(idxs_ds_, c, k) \in Pits(idxs_ds_)
        /\ \A j \in 0 .. (k - 1) : Hop(idxs_ds_, c, j) \notin Pits(idxs_ds_)}

\* level k of the tree, empty past its end
Level(k) == IF k \in DOMAIN tree THEN tree[k] ELSE <<>>

\* C1: for a downstream array of valid entries, every cell is either at
\* exactly one position of the network tree and not in the loop indices, or
\* in the loop indices and at no position of the tree.
C1_Partition ==
    (call = "network" /\ LoopsDone /\ Valid(idxs_ds)) =>
        \A c \in DOMAIN idxs_ds :
            \/ Cardinality(TreePositions(c)) = 1 /\ c \notin Range(loops)
            \/ TreePositions(c) = {} /\ c \in Range(loops)

\* C1 witness: a tree of several levels beside a cycle
C1_Witness ==
    /\ call = "network" /\ pc = "loop_done" /\ Valid(idxs_ds)
    /\ Len(tree) >= 2
    /\ Len(loops) >= 2

\* C2: after _idxs_us, the row of the downstream target of every non-pit
\* cell holds that cell, and no placement needs a slot past the row width d.
C2_RowsHoldUpstream ==
    (call = "network" /\ Valid(idxs_ds)) =>
        /\ pc # "IndexError"
        /\ Built =>
              \A i \in DOMAIN idxs_ds :
                  idxs_ds[i] # i => i \in Range(idxs_us[idxs_ds[i]])

\* C4 as claimed: no level of the network tree is empty, and without a pit
\* the tree is the empty sequence.
C4_NoEmptyLevel ==
    (call = "network" /\ TreeDone) =>
        /\ \A k \in DOMAIN tree : Len(tree[k]) > 0
        /\ pit_indices(idxs_ds) = <<>> => tree = <<>>

\* C4 as amended: level 0 is always the array of pits, empty or not; every
\* later level is non-empty; without a pit the tree is the one empty level.
C4_OnlyPitLevelMayBeEmpty ==
    (call = "network" /\ TreeDone) =>
        /\ Len(tree) >= 1
        /\ tree[1] = pit_indices(idxs_ds)
        /\ \A k \in 2 .. Len(tree) : Len(tree[k]) > 0
        /\ pit_indices(idxs_ds) = <<>> => tree = << <<>> >>

\* C4 witness: the tree of a cycle of two cells without a pit
C4_Witness ==
    /\ call = "network" /\ pc = "tree_done"
    /\ Size(idxs_ds) = 2 /\ idxs_ds[0] = 1 /\ idxs_ds[1] = 0
    /\ tree = << <<>> >>

\* C6: on a downstream array of valid entries, downstream_path from a cell
\* outside the loop indices returns (within as many hops as there are
\* cells) the chain of downstream targets up to the first pit, and from a
\* cell of the loop indices it never returns.
C6_PathToPit ==
    (call = "network" /\ Valid(idxs_ds) /\ pc \in {"path", "path_done"}) =>
        /\ path[1] \notin Range(loops) => Len(path) <= Size(idxs_ds)
        /\ path[1] \in Range(loops) => pc # "path_done"
        /\ pc = "path_done" =>
              /\ \A k \in 1 .. (Len(path) - 1) :
                    /\ path[k + 1] = idxs_ds[path[k]]
                    /\ path[k] \notin Pits(idxs_ds)
              /\ path[Len(path)] \in Pits(idxs_ds)

\* C7: on a downstream array of valid entries, the while-loops of
\* network_tree and loop_indices leave after at most n passes: inside a
\* loop fewer than n passes are done, so the n-th pass is the last.
C7_LoopsEnd ==
    (call = "network" /\ Valid(idxs_ds)) =>
        /\ iter <= Size(idxs_ds)
        /\ pc \in {"tree", "loop"} => iter < Size(idxs_ds)

\* C7 witness: both loops have run on an array with a cycle beside a tree
\* of several levels, and the last loop took more than one pass
C7_Witness ==
    /\ call = "network" /\ pc = "loop_done" /\ Valid(idxs_ds)
    /\ iter >= 2
    /\ \E c \in DOMAIN idxs_ds : idxs_ds[c] # c /\ idxs_ds[idxs_ds[c]] = c
    /\ \E c \in DOMAIN idxs_ds : idxs_ds[c] # c /\ idxs_ds[c] \in Pits(idxs_ds)

\* C9 as claimed: every cell whose downstream entry is the missing value is
\* in the loop indices.
C9_MissingReported ==
    (call = "network" /\ LoopsDone) =>
        \A c \in DOMAIN idxs_ds : idxs_ds[c] = _mv => c \in Range(loops)

\* C9 as amended: no cell whose downstream entry is the missing value is in
\* the loop indices; they are exactly the cells with another downstream
\* entry that the expansion from the pits never reaches.
C9_MissingNotReported ==
    (call = "network" /\ LoopsDone) =>
        \A c \in DOMAIN idxs_ds :
            /\ idxs_ds[c] = _mv => c \notin Range(loops)
            /\ c \in Range(loops) <=> (idxs_ds[c] # _mv /\ c \notin TreeCells)

\* C9 witness: a cell without downstream target beside a reported cell
C9_Witness ==
    /\ call = "network" /\ pc = "loop_done"
    /\ \E c \in DOMAIN idxs_ds : idxs_ds[c] = _mv
    /\ loops # <<>>

\* C10: on a downstream array of valid entries, level 0 of the tree is the
\* pits in ascending order; level k holds exactly the cells k hops from
\* their pit, each with its downstream target in level k - 1; and level k
\* is the concatenation of the table rows of the cells of level k - 1.
C10_LevelsByDistance ==
    (call = "network" /\ TreeDone /\ Valid(idxs_ds)) =>
        /\ tree[1] = pit_indices(idxs_ds)
        /\ \A k \in 1 .. Len(tree) :
              /\ Range(Level(k + 1)) = AtDistance(idxs_ds, k)
              /\ \A j \in DOMAIN Level(k + 1) :
                    idxs_ds[Level(k + 1)[j]] \in Range(tree[k])
              /\ Level(k + 1) = upstream(tree[k], idxs_us)

\* positions of a table row whose cell has an area of at least m
Qualifying(row, w, m) == {k \in DOMAIN row : row[k] # _mv /\ w[row[k]] >= m}

\* C3: for every cell asked for, main_upstream returns the missing value
\* iff no entry of the cell's row has an area >= upa_min; otherwise it
\* returns a row entry of the largest area among the entries with an area
\* >= upa_min, and of the entries of that area the last one in the row.
C3_LastLargest ==
    (call = "main_upstream" /\ pc = "main_done") =>
        \A i \in DOMAIN idxs :
            LET row == idxs_us[idxs[i]]
                Q   == Qualifying(row, uparea_sparse, upa_min)
                r   == idxs_us_main[i]
            IN /\ (r = _mv) <=> (Q = {})
               /\ Q # {} =>
                     \E k \in Q :
                         /\ row[k] = r
                         /\ uparea_sparse[r] >= upa_min
                         /\ \A j \in Q :
                               /\ uparea_sparse[row[j]] <= uparea_sparse[r]
                               /\ uparea_sparse[row[j]] = uparea_sparse[r]
                                      => j <= k

\* C3 witness: a row of two entries of the same, largest area, the second
\* returned, and a cell for which the missing value is returned
C3_Witness ==
    /\ call = "main_upstream" /\ pc = "main_done"
    /\ upa_min > 0
    /\ \E i \in DOMAIN idxs :
          LET row == idxs_us[idxs[i]] IN
          /\ Len(row) >= 2
          /\ row[1] # _mv /\ row[2] # _mv
          /\ uparea_sparse[row[1]] = uparea_sparse[row[2]]
          /\ uparea_sparse[row[1]] >= upa_min
          /\ idxs_us_main[i] = row[2]
    /\ \E i \in DOMAIN idxs : idxs_us_main[i] = _mv

\* C5 as claimed: with one value per valid cell, _sparse_idx applied to the
\* raster of _densify returns the sparse values.
C5_RoundTrip ==
    (call = "index" /\ Size(data) = Size(idxs_dense)) =>
        /\ pc # "ValueError_of_dense"
        /\ pc = "sparse_of_dense" => ravel(idxs_sparse, shape) = data

\* C5 as amended: the raster of _densify holds data[k] at the dense index
\* idxs_dense[k] and nodata in every other cell, so reading it at
\* idxs_dense returns the sparse values; and _sparse_idx, which maps dense
\* indices and not values, returns 0 .. n-1 for idxs_dense itself.
C5_DenseHoldsValues ==
    (call = "index" /\ pc \notin {"start", "ValueError"}) =>
        LET flat == ravel(data_out, shape) IN
        /\ \A k \in DOMAIN idxs_dense : flat[idxs_dense[k]] = data[k]
        /\ \A q \in DOMAIN flat :
              q \notin Range(idxs_dense) => flat[q] = nodata
        /\ pc # "ValueError_of_valid"
        /\ pc = "sparse_of_valid" =>
              idxs_sparse = [k \in DOMAIN idxs_dense |-> k]

\* C5 witness: two valid cells listed against raster order, beside a cell
\* without data
C5_Witness ==
    /\ call = "index" /\ pc = "sparse_of_valid"
    /\ Size(idxs_dense) = 2
    /\ idxs_dense[0] > idxs_dense[1]
    /\ data[0] # data[1]
    /\ Size(idxs_dense) < shape[0] * shape[1]

\* C8: with latlon = False, downstream_length returns the downstream cell
\* and the length whose square is (yres * dr)^2 + (xres * dc)^2, dr and dc
\* the row and column deltas of the two cells, xres = affine[0] and
\* yres = affine[4].
C8_EuclideanLength ==
    (call = "length" /\ pc = "length_done") =>
        LET idx1 == idxs_ds[idx0]
            dr   == (idxs_dense[idx0] \div shape[1])
                        - (idxs_dense[idx1] \div shape[1])
            dc   == (idxs_dense[idx0] % shape[1])
                        - (idxs_dense[idx1] % shape[1])
            y    == affine[4] * dr
            x    == affine[0] * dc
        IN ds_length = <<idx1, y * y + x * x>>
====
